---- MODULE Spec2Model ----
(***************************************************************************)
(* A model of adafruit_pyportal.py: the PyPortal constructor's adapter     *)
(* probe, the scene operations set_background / set_text / set_caption,    *)
(* the fetch() pipeline with wget and _connect_esp, and the pure function  *)
(* wrap_nicely.  Strings are sequences of one-character strings.           *)
(***************************************************************************)
EXTENDS Integers, Sequences, FiniteSets, TLC

VARIABLES
    cfg,        \* constructor arguments and the _uselocal flag
    pc,         \* position of the running operation ("idle" between calls)
    tries,      \* iterations of the constructor's probe loop so far
    connected,  \* self._esp.is_connected
    neo,        \* colour shown by the status NeoPixel
    splash,     \* self.splash, bottom first
    bg_group,   \* self._bg_group
    bg_file,    \* self._bg_file
    nopen,      \* background file handles currently open
    maxopen,    \* most background file handles ever open at once
    text,       \* self._text: per slot, None or the TextArea's string
    caption,    \* self._caption
    resp,       \* r, the response of the running fetch
    json_out,   \* json_out of the running fetch
    values,     \* values of the running fetch
    image_url,  \* image_url of the running fetch
    slot,       \* i of the text loop of the running fetch
    attempts,   \* connect attempts of the running _connect_esp
    dl,         \* wget's locals: content_length, remaining, chunk size
    cb_values,  \* what the success callback was given by the running fetch
    log,        \* calls made by the running operation, oldest first
    last,       \* how the last operation ended
    w_string,   \* wrap_nicely: string
    w_max,      \* wrap_nicely: max_chars
    w_lines     \* wrap_nicely: the returned lines (or not yet called)

vars == <<cfg, pc, tries, connected, neo, splash, bg_group, bg_file, nopen,
          maxopen, text, caption, resp, json_out, values, image_url, slot, attempts,
          dl, cb_values, log, last, w_string, w_max, w_lines>>

devvars == <<cfg, pc, tries, connected, neo, splash, bg_group, bg_file, nopen,
             maxopen, text, caption, resp, json_out, values, image_url, slot, attempts,
             dl, cb_values, log, last>>

wrapvars == <<w_string, w_max, w_lines>>

(***************************************************************************)
(* Bounds                                                                  *)
(***************************************************************************)
MaxStrLen == 5
MaxWidth == 4

(***************************************************************************)
(* Strings                                                                 *)
(***************************************************************************)
RECURSIVE StringsUpTo(_, _)
StringsUpTo(alphabet, n) ==
    IF n = 0 THEN {<<>>}
    ELSE LET shorter == StringsUpTo(alphabet, n - 1)
         IN  shorter \cup {Append(s, c) : s \in shorter, c \in alphabet}

RECURSIVE Concat(_)
Concat(seqs) ==
    IF seqs = <<>> THEN <<>> ELSE Head(seqs) \o Concat(Tail(seqs))

\* sep.join(parts)
RECURSIVE Join(_, _)
Join(sep, parts) ==
    IF parts = <<>> THEN <<>>
    ELSE IF Len(parts) = 1 THEN parts[1]
    ELSE parts[1] \o sep \o Join(sep, Tail(parts))

\* string.split(' '): every single space separates, so a leading, trailing
\* or doubled space yields an empty word
RECURSIVE SplitFrom(_, _, _, _)
SplitFrom(s, i, cur, acc) ==
    IF i > Len(s) THEN Append(acc, cur)
    ELSE IF s[i] = " " THEN SplitFrom(s, i + 1, <<>>, Append(acc, cur))
    ELSE SplitFrom(s, i + 1, Append(cur, s[i]), acc)

Split(s) == SplitFrom(s, 1, <<>>, <<>>)

(***************************************************************************)
(* wrap_nicely                                                             *)
(***************************************************************************)
\* the for loop over words, then the flush of the last line
RECURSIVE WrapLoop(_, _, _, _, _)
WrapLoop(words, i, the_lines, the_line, max_chars) ==
    IF i > Len(words)
    THEN IF the_line # <<>> THEN Append(the_lines, the_line) ELSE the_lines
    ELSE IF Len(the_line \o <<" ">> \o words[i]) <= max_chars
         THEN WrapLoop(words, i + 1, the_lines,
                       the_line \o <<" ">> \o words[i], max_chars)
         ELSE WrapLoop(words, i + 1, Append(the_lines, the_line),
                       words[i], max_chars)

wrap_nicely(string, max_chars) ==
    WrapLoop(Split(string), 1, <<>>, <<>>, max_chars)

(***************************************************************************)
(* Outcomes of the operation that last ended                               *)
(***************************************************************************)
\* a call the running operation made, with its argument
Ev(name, arg) == <<name, arg>>

NoneYet == [kind |-> "none", op |-> "", err |-> "", at |-> ""]

Running(op) == [kind |-> "running", op |-> op, err |-> "", at |-> ""]

Returned(op) == [kind |-> "return", op |-> op, err |-> "", at |-> ""]

\* the operation raised err to its caller from the step named at
Raised(op, err, at) == [kind |-> "raise", op |-> op, err |-> err, at |-> at]

\* supervisor.reload()
Reloaded(op) ==
    [kind |-> "reload", op |-> op, err |-> "MemoryError", at |-> "json"]

(***************************************************************************)
(* The scene: splash, the background group and file, the text slots        *)
(***************************************************************************)
\* displayio.Group(max_size=5), line 199
SplashMax == 5

\* "" stands for None
NoFile == [name |-> "", open |-> FALSE]

NoText == [set |-> FALSE, s |-> <<>>]

TextArea(string) == [set |-> TRUE, s |-> string]

\* the scene element of text slot index (0-based, as in the source)
TextEl(index) == <<"text0", "text1", "text2", "text3", "text4">>[index + 1]

\* what opening and decoding a bitmap file can do: open() raises OSError,
\* OnDiskBitmap raises ValueError, or both succeed
OpenOutcomes == {"ok", "OSError", "ValueError"}

Max(a, b) == IF a >= b THEN a ELSE b

\* self._bg_group.pop() with IndexError ignored
PopBackground(g) == IF g = <<>> THEN g ELSE SubSeq(g, 1, Len(g) - 1)

\* if self._bg_file: self._bg_file.close(); the handles open afterwards
CloseOldNoClose(f, n) == n
CloseOld(f, n) == IF f.name # "" /\ f.open THEN n - 1 ELSE n

\* set_background(filename) on group g, file f, n open handles; out is what
\* open() and OnDiskBitmap do this time
set_background(g, f, n, filename, out) ==
    LET popped == PopBackground(g)
        n1     == CloseOld(f, n)
        closed == IF f.name # "" THEN [f EXCEPT !.open = FALSE] ELSE f
        opened == [name |-> filename, open |-> TRUE]
    IN  IF filename = ""
        THEN [group |-> popped, file |-> f, nopen |-> n, peak |-> n,
              err |-> "none"]
        ELSE IF out = "OSError"
        THEN [group |-> popped, file |-> closed, nopen |-> n1, peak |-> n,
              err |-> "OSError"]
        ELSE IF out = "ValueError"
        THEN [group |-> popped, file |-> opened, nopen |-> n1 + 1,
              peak |-> Max(n, n1 + 1), err |-> "ValueError"]
        ELSE [group |-> Append(popped, filename), file |-> opened,
              nopen |-> n1 + 1, peak |-> Max(n, n1 + 1), err |-> "none"]

\* the while loop of set_text: pop from the top until the slot's element is
\* popped; found is its index (0 when the whole stack was popped)
RECURSIVE FindFromTop(_, _, _)
FindFromTop(s, el, k) ==
    IF k = 0 THEN 0
    ELSE IF s[k] = el THEN k
    ELSE FindFromTop(s, el, k - 1)

\* items, in the order they were popped (topmost first)
PoppedItems(s, found) == [j \in 1..(Len(s) - found) |-> s[Len(s) + 1 - j]]

Below(s, found) == IF found = 0 THEN <<>> ELSE SubSeq(s, 1, found - 1)

\* for g in items: self.splash.append(g)
Reinsert(s, items) == s \o items

\* string = str(val); string = string[:maxlen] when maxlen is set
Truncate(string, maxlen) ==
    IF maxlen # 0 /\ Len(string) > maxlen THEN SubSeq(string, 1, maxlen)
    ELSE string

\* set_text(val, index) on splash s and slots t
set_text(s, t, c, val, index) ==
    IF c.ntext = 0
    THEN [splash |-> s, text |-> t, err |-> "none"]
    ELSE IF index >= c.ntext
    THEN [splash |-> s, text |-> t, err |-> "IndexError"]
    ELSE LET string == Truncate(val, c.text_maxlen)
             el     == TextEl(index)
             found  == FindFromTop(s, el, Len(s))
         IN  IF t[index + 1].set
             THEN [splash |-> Reinsert(Append(Below(s, found), el),
                                       PoppedItems(s, found)),
                   text |-> [t EXCEPT ![index + 1] = TextArea(string)],
                   err |-> "none"]
             ELSE IF Len(s) >= SplashMax
             THEN [splash |-> s,
                   text |-> [t EXCEPT ![index + 1] = TextArea(string)],
                   err |-> "GroupFull"]
             ELSE [splash |-> Append(s, el),
                   text |-> [t EXCEPT ![index + 1] = TextArea(string)],
                   err |-> "none"]

\* set_caption(caption_text, ...): has_text is caption_text's truth value
set_caption(s, cap, c, has_text) ==
    IF ~has_text THEN [splash |-> s, caption |-> cap, err |-> "none"]
    ELSE IF ~c.caption_font
    THEN [splash |-> s, caption |-> cap, err |-> "AttributeError"]
    ELSE IF cap THEN [splash |-> s, caption |-> cap, err |-> "none"]
    ELSE IF Len(s) >= SplashMax
    THEN [splash |-> s, caption |-> TRUE, err |-> "GroupFull"]
    ELSE [splash |-> Append(s, "caption"), caption |-> TRUE, err |-> "none"]

(***************************************************************************)
(* __init__                                                                *)
(***************************************************************************)
\* for _ in range(3), line 184
Retries == 3

PowerOn ==
    /\ pc = "probe"
    /\ tries = 0
    /\ connected = FALSE
    /\ neo = "off"
    /\ splash = <<>>
    /\ bg_group = <<>>
    /\ bg_file = NoFile
    /\ nopen = 0
    /\ maxopen = 0
    /\ text = <<>>
    /\ caption = FALSE
    /\ resp = <<>>
    /\ json_out = ""
    /\ values = <<>>
    /\ image_url = <<>>
    /\ slot = 0
    /\ attempts = 0
    /\ dl = <<>>
    /\ cb_values = <<>>
    /\ log = <<>>
    /\ last = NoneYet
    /\ w_string = <<>>
    /\ w_max = 1
    /\ w_lines = <<>>

\* what one failed iteration of the probe loop does after the probe
AfterFailedProbeNoReset == <<Ev("probe_fail", ""), Ev("sleep", "1")>>
AfterFailedProbe ==
    <<Ev("probe_fail", ""), Ev("sleep", "1"), Ev("reset", "")>>

\* one iteration of the retry loop of lines 184-193; with _uselocal the
\* whole block is skipped
ProbeESP ==
    /\ pc = "probe"
    /\ \/ /\ cfg.uselocal
          /\ pc' = "construct"
          /\ UNCHANGED <<tries, log, last>>
       \/ /\ ~cfg.uselocal
          /\ tries < Retries
          /\ log' = Append(log, Ev("probe_ok", ""))
          /\ pc' = "construct"
          /\ UNCHANGED <<tries, last>>
       \/ /\ ~cfg.uselocal
          /\ tries < Retries
          /\ log' = log \o AfterFailedProbe
          /\ tries' = tries + 1
          /\ IF tries + 1 < Retries
             THEN pc' = "probe" /\ UNCHANGED last
             ELSE /\ pc' = "dead"
                  /\ last' = Raised("init", "RuntimeError", "probe")
    /\ UNCHANGED <<cfg, connected, neo, splash, bg_group, bg_file, nopen,
                   maxopen, text, caption, resp, json_out, values, image_url,
                   slot, attempts, dl>>
    /\ UNCHANGED cb_values
    /\ UNCHANGED wrapvars

\* lines 197-280: the splash group, the default background, the caption and
\* the (empty) text slots
Construct ==
    /\ pc = "construct"
    /\ \E out \in OpenOutcomes :
         LET bg  == set_background(<<>>, NoFile, 0, cfg.default_bg, out)
             cap == set_caption(<<"bg">>, FALSE, cfg, cfg.caption_text)
         IN  /\ cfg.default_bg = "" => out = "ok"
             /\ bg_group' = bg.group
             /\ bg_file' = bg.file
             /\ nopen' = bg.nopen
             /\ maxopen' = bg.peak
             /\ IF bg.err # "none"
                THEN /\ pc' = "dead"
                     /\ last' = Raised("init", bg.err, "set_background")
                     /\ UNCHANGED <<splash, caption, text>>
                ELSE IF cap.err # "none"
                THEN /\ pc' = "dead"
                     /\ last' = Raised("init", cap.err, "set_caption")
                     /\ splash' = <<"bg">>
                     /\ UNCHANGED <<caption, text>>
                ELSE /\ pc' = "idle"
                     /\ last' = Returned("init")
                     /\ splash' = cap.splash
                     /\ caption' = cap.caption
                     /\ text' = [i \in 1..cfg.ntext |-> NoText]
    /\ log' = Append(log, Ev("constructed", ""))
    /\ tries' = 0
    /\ UNCHANGED <<cfg, connected, neo, resp, json_out, values,
                   image_url, slot, attempts, dl>>
    /\ UNCHANGED cb_values
    /\ UNCHANGED wrapvars

(***************************************************************************)
(* The scene operations called by the user                                 *)
(***************************************************************************)
MaxText == 3

SceneStrings == {<<"a", "b", "c">>}

SceneFiles == {"", "default.bmp", "one.bmp", "two.bmp"}

CallSetText ==
    /\ pc = "idle"
    /\ \E index \in 0..(cfg.ntext - 1), val \in SceneStrings :
         LET r == set_text(splash, text, cfg, val, index)
         IN  /\ splash' = r.splash
             /\ text' = r.text
             /\ log' = <<Ev("set_text", TextEl(index))>>
             /\ last' = IF r.err = "none" THEN Returned("set_text")
                        ELSE Raised("set_text", r.err, "set_text")
    /\ UNCHANGED <<cfg, pc, tries, connected, neo, bg_group, bg_file, nopen,
                   maxopen, caption, resp, json_out, values, image_url, slot,
                   attempts, dl>>
    /\ UNCHANGED cb_values
    /\ UNCHANGED wrapvars

CallSetBackground ==
    /\ pc = "idle"
    /\ \E filename \in SceneFiles, out \in OpenOutcomes :
         LET r == set_background(bg_group, bg_file, nopen, filename, out)
         IN  /\ bg_group' = r.group
             /\ bg_file' = r.file
             /\ nopen' = r.nopen
             /\ maxopen' = Max(maxopen, r.peak)
             /\ log' = <<Ev("set_background", filename)>>
             /\ last' = IF r.err = "none" THEN Returned("set_background")
                        ELSE Raised("set_background", r.err, "set_background")
    /\ UNCHANGED <<cfg, pc, tries, connected, neo, splash, text, caption,
                   resp, json_out, values, image_url, slot, attempts, dl>>
    /\ UNCHANGED cb_values
    /\ UNCHANGED wrapvars

CallSetCaption ==
    /\ pc = "idle"
    /\ \E has_text \in BOOLEAN :
         LET r == set_caption(splash, caption, cfg, has_text)
         IN  /\ splash' = r.splash
             /\ caption' = r.caption
             /\ log' = <<Ev("set_caption", "")>>
             /\ last' = IF r.err = "none" THEN Returned("set_caption")
                        ELSE Raised("set_caption", r.err, "set_caption")
    /\ UNCHANGED <<cfg, pc, tries, connected, neo, bg_group, bg_file, nopen,
                   maxopen, text, resp, json_out, values, image_url, slot,
                   attempts, dl>>
    /\ UNCHANGED cb_values
    /\ UNCHANGED wrapvars

BaseConfig ==
    [uselocal |-> FALSE, json_path |-> <<>>, regexp_path |-> FALSE,
     image_json_path |-> <<>>, callback |-> FALSE, neopix |-> FALSE,
     ntext |-> 0, text_wrap |-> 0, text_maxlen |-> 0, default_bg |-> "",
     caption_font |-> FALSE, caption_text |-> FALSE]

\* text slots and caption: set_text and set_caption calls in any order
TextConfigs ==
    { [BaseConfig EXCEPT !.uselocal = ul, !.ntext = n, !.text_maxlen = ml,
                         !.caption_font = cf, !.caption_text = ct] :
         ul \in BOOLEAN, n \in 0..MaxText, ml \in {0, 2},
         cf \in BOOLEAN, ct \in BOOLEAN }

TextInit ==
    /\ cfg \in TextConfigs
    /\ PowerOn

TextNext ==
    \/ ProbeESP
    \/ Construct
    \/ CallSetText
    \/ CallSetCaption

SpecText == TextInit /\ [][TextNext]_vars

\* the background: set_background calls in any order
BackgroundConfigs ==
    { [BaseConfig EXCEPT !.uselocal = ul, !.default_bg = bg] :
         ul \in BOOLEAN, bg \in {"", "default.bmp"} }

BackgroundInit ==
    /\ cfg \in BackgroundConfigs
    /\ PowerOn

BackgroundNext ==
    \/ ProbeESP
    \/ Construct
    \/ CallSetBackground

SpecBackground == BackgroundInit /\ [][BackgroundNext]_vars

(***************************************************************************)
(* Parsed JSON documents and _json_traverse                                *)
(***************************************************************************)
\* a step of a path: a string key or an integer index
KS(s) == [kind |-> "str", s |-> s, i |-> 0]

KI(i) == [kind |-> "int", s |-> "", i |-> i]

MapNode(keys, get) == [t |-> "map", keys |-> keys, get |-> get]

SeqNode(items) == [t |-> "seq", items |-> items]

StrNode(s) == [t |-> "str", s |-> s]

IntNode(n) == [t |-> "int", n |-> n]

\* {"text": 1234, "image": {"url": "u"}, "list": ["ab c"]}
DocA ==
    MapNode({"text", "image", "list"},
            [k \in {"text", "image", "list"} |->
                IF k = "text" THEN IntNode(1234)
                ELSE IF k = "image"
                THEN MapNode({"url"}, [j \in {"url"} |-> StrNode(<<"u">>)])
                ELSE SeqNode(<<StrNode(<<"a", "b", " ", "c">>)>>)])

\* {"text": "12345", "image": {}, "list": []}
DocB ==
    MapNode({"text", "image", "list"},
            [k \in {"text", "image", "list"} |->
                IF k = "text" THEN StrNode(<<"1", "2", "3", "4", "5">>)
                ELSE IF k = "image" THEN MapNode({}, <<>>)
                ELSE SeqNode(<<>>)])

DocIds == {"A", "B"}

DocOf(id) == IF id = "A" THEN DocA ELSE DocB

\* value[x]: KeyError for a key a mapping lacks, IndexError for an index
\* past the end, TypeError for a key of the wrong type
Subscript(node, x) ==
    IF node.t = "map"
    THEN IF x.kind = "str" /\ x.s \in node.keys
         THEN [err |-> "none", node |-> node.get[x.s]]
         ELSE [err |-> "KeyError", node |-> node]
    ELSE IF node.t = "seq"
    THEN IF x.kind # "int" THEN [err |-> "TypeError", node |-> node]
         ELSE IF x.i < Len(node.items)
         THEN [err |-> "none", node |-> node.items[x.i + 1]]
         ELSE [err |-> "IndexError", node |-> node]
    ELSE IF node.t = "str"
    THEN IF x.kind # "int" THEN [err |-> "TypeError", node |-> node]
         ELSE IF x.i < Len(node.s)
         THEN [err |-> "none", node |-> StrNode(<<node.s[x.i + 1]>>)]
         ELSE [err |-> "IndexError", node |-> node]
    ELSE [err |-> "TypeError", node |-> node]

\* _json_traverse(json, path) from step k on; key is the step that raised
RECURSIVE TraverseFrom(_, _, _)
TraverseFrom(value, path, k) ==
    IF k > Len(path) THEN [err |-> "none", key |-> KS(""), node |-> value]
    ELSE LET r == Subscript(value, path[k])
         IN  IF r.err # "none"
             THEN [err |-> r.err, key |-> path[k], node |-> value]
             ELSE TraverseFrom(r.node, path, k + 1)

json_traverse(json, path) == TraverseFrom(json, path, 1)

\* a value as fetch holds it: a string or an integer (or a container)
StrV(s) == [t |-> "str", s |-> s, n |-> 0]

IntV(n) == [t |-> "int", s |-> <<>>, n |-> n]

NoneV == [t |-> "none", s |-> <<>>, n |-> 0]

ValueOf(node) ==
    IF node.t = "str" THEN StrV(node.s)
    ELSE IF node.t = "int" THEN IntV(node.n)
    ELSE [t |-> node.t, s |-> <<>>, n |-> 0]

\* the truth value of a value: a non-empty string, a non-zero integer
Truthy(v) ==
    IF v.t = "str" THEN v.s # <<>>
    ELSE IF v.t = "int" THEN v.n # 0
    ELSE v.t # "none"

(***************************************************************************)
(* "{:,d}".format(int(v))                                                  *)
(***************************************************************************)
DigitChars == <<"0", "1", "2", "3", "4", "5", "6", "7", "8", "9">>

IsDigit(c) == \E d \in 1..10 : DigitChars[d] = c

DigitVal(c) == (CHOOSE d \in 1..10 : DigitChars[d] = c) - 1

\* int() ignores surrounding whitespace
RECURSIVE Strip(_)
Strip(s) ==
    IF s = <<>> THEN s
    ELSE IF Head(s) = " " THEN Strip(Tail(s))
    ELSE IF s[Len(s)] = " " THEN Strip(SubSeq(s, 1, Len(s) - 1))
    ELSE s

\* whether int(s) succeeds on a string of letters, digits and spaces
IsIntString(s) ==
    /\ Strip(s) # <<>>
    /\ \A k \in 1..Len(Strip(s)) : IsDigit(Strip(s)[k])

RECURSIVE DecimalValue(_)
DecimalValue(ds) ==
    IF ds = <<>> THEN 0
    ELSE 10 * DecimalValue(SubSeq(ds, 1, Len(ds) - 1)) + DigitVal(ds[Len(ds)])

RECURSIVE DecimalOf(_)
DecimalOf(n) ==
    IF n < 10 THEN <<DigitChars[n + 1]>>
    ELSE DecimalOf(n \div 10) \o <<DigitChars[(n % 10) + 1]>>

RECURSIVE WithCommas(_)
WithCommas(ds) ==
    IF Len(ds) <= 3 THEN ds
    ELSE WithCommas(SubSeq(ds, 1, Len(ds) - 3)) \o <<",">>
         \o SubSeq(ds, Len(ds) - 2, Len(ds))

FormatInt(n) == WithCommas(DecimalOf(n))

\* lines 604-608: the formatted integer, or the value itself when int()
\* raises TypeError or ValueError
FormatValue(v) ==
    IF v.t = "int" THEN FormatInt(v.n)
    ELSE IF v.t = "str" /\ IsIntString(v.s)
    THEN FormatInt(DecimalValue(Strip(v.s)))
    ELSE v.s

\* lines 611-614
WrapValue(string, text_wrap) ==
    IF text_wrap # 0 THEN Join(<<"\n">>, wrap_nicely(string, text_wrap))
    ELSE string

\* the string fetch hands to set_text for value v
DisplayString(v, c) == WrapValue(FormatValue(v), c.text_wrap)

(***************************************************************************)
(* fetch, _connect_esp and wget                                            *)
(***************************************************************************)
MaxBodyLen == 2

MaxAttempts == 2

MaxChunks == 2

\* min(remaining, 12000), line 490
ChunkSize == 12000

\* downloads come in half chunks
HalfChunk == ChunkSize \div 2

ContentLengths == {k * HalfChunk : k \in 0..(MaxChunks + 1)}

BodyAlphabet == {"a", "1"}

JsonText == <<"{", "}">>

\* a response: its body text and what r.json() does with it
Responses ==
    {[text |-> t, json |-> "ValueError"] :
        t \in StringsUpTo(BodyAlphabet, MaxBodyLen)}
    \cup {[text |-> JsonText, json |-> j] : j \in DocIds \cup {"MemoryError"}}

NoResp == [text |-> <<>>, json |-> ""]

\* values = [] and values = r.text
ListValues(list) == [isstr |-> FALSE, str |-> <<>>, list |-> list]

TextValues(str) == [isstr |-> TRUE, str |-> str, list |-> <<>>]

ValuesLen(v) == IF v.isstr THEN Len(v.str) ELSE Len(v.list)

\* values[i], i counted from 0: a character of the text or an item
ValuesAt(v, i) == IF v.isstr THEN StrV(<<v.str[i + 1]>>) ELSE v.list[i + 1]

NoDl == [content_length |-> 0, remaining |-> 0, chunk |-> 0]

\* neo_status(value): the pixel changes only when one is configured
neo_status(c, cur, value) == IF c.neopix THEN value ELSE cur

scenevars == <<splash, bg_group, bg_file, nopen, maxopen, text, caption>>

fixedvars == <<cfg, tries, w_string, w_max, w_lines>>

\* fetch raises err from step at
FetchRaises(err, at) ==
    /\ pc' = "idle"
    /\ last' = Raised("fetch", err, at)

\* lines 516-529: the locals, and the local file in place of the network
FetchBegin ==
    /\ pc = "idle"
    /\ values' = ListValues(<<>>)
    /\ image_url' = NoneV
    /\ json_out' = ""
    /\ slot' = 0
    /\ attempts' = 0
    /\ dl' = NoDl
    /\ cb_values' = <<>>
    /\ \/ /\ cfg.uselocal
          /\ \E r \in Responses : resp' = r
          /\ log' = <<Ev("open", "local.txt")>>
          /\ pc' = "parse"
          /\ last' = Running("fetch")
          /\ UNCHANGED <<neo, connected>>
       \/ /\ cfg.uselocal
          /\ resp' = NoResp
          /\ log' = <<Ev("open", "local.txt")>>
          /\ FetchRaises("OSError", "open_local")
          /\ UNCHANGED <<neo, connected>>
       \/ /\ ~cfg.uselocal
          /\ resp' = NoResp
          /\ log' = <<Ev("neo_status", "blue")>>
          /\ neo' = neo_status(cfg, neo, "blue")
          /\ pc' = "connect"
          /\ last' = Running("fetch")
          /\ \E c \in BOOLEAN : (c => connected) /\ connected' = c
    /\ UNCHANGED scenevars
    /\ UNCHANGED fixedvars

\* while not self._esp.is_connected, line 509
StillConnectingNever(is_connected) == FALSE
StillConnecting(is_connected) == ~is_connected

\* lines 509-514: one test of the while condition and, when not connected,
\* one pass of the body; esp.connect may connect, fail quietly or raise
ConnectEsp ==
    /\ pc = "connect"
    /\ \/ /\ ~StillConnecting(connected)
          /\ pc' = "get"
          /\ UNCHANGED <<connected, neo, log, last, attempts>>
       \/ /\ StillConnecting(connected)
          /\ log' = log \o <<Ev("neo_status", "red"), Ev("connect", "settings")>>
          /\ neo' = neo_status(cfg, neo, "red")
          /\ attempts' = attempts + 1
          /\ connected' = TRUE
          /\ pc' = "connect"
          /\ UNCHANGED last
       \/ /\ StillConnecting(connected)
          /\ attempts + 1 < MaxAttempts
          /\ log' = log \o <<Ev("neo_status", "red"), Ev("connect", "settings")>>
          /\ neo' = neo_status(cfg, neo, "red")
          /\ attempts' = attempts + 1
          /\ connected' = FALSE
          /\ pc' = "connect"
          /\ UNCHANGED last
       \/ /\ StillConnecting(connected)
          /\ log' = log \o <<Ev("neo_status", "red"), Ev("connect", "settings")>>
          /\ neo' = neo_status(cfg, neo, "red")
          /\ attempts' = attempts + 1
          /\ FetchRaises("RuntimeError", "connect")
          /\ UNCHANGED connected
    /\ UNCHANGED <<resp, json_out, values, image_url, slot, dl>>
    /\ UNCHANGED scenevars
    /\ UNCHANGED cb_values
    /\ UNCHANGED fixedvars

\* lines 533-540: the buffered GET
Get ==
    /\ pc = "get"
    /\ \/ /\ \E r \in Responses : resp' = r
          /\ log' = log \o <<Ev("neo_status", "yellow"), Ev("get", "url"),
                             Ev("neo_status", "blue")>>
          /\ neo' = neo_status(cfg, neo, "blue")
          /\ pc' = "parse"
          /\ UNCHANGED last
       \/ /\ \E err \in {"RuntimeError", "MemoryError"} :
                FetchRaises(err, "get")
          /\ log' = log \o <<Ev("neo_status", "yellow"), Ev("get", "url")>>
          /\ neo' = neo_status(cfg, neo, "yellow")
          /\ UNCHANGED resp
    /\ UNCHANGED <<connected, json_out, values, image_url, slot, attempts, dl>>
    /\ UNCHANGED scenevars
    /\ UNCHANGED cb_values
    /\ UNCHANGED fixedvars

NeedsJson(c) == c.image_json_path # <<>> \/ c.json_path # <<>>

\* the handlers of lines 550-554, by what r.json() did
ParseHandlerSwallows(outcome) ==
    IF outcome = "MemoryError" THEN "reload" ELSE "continue"
ParseHandlerNoReload(outcome) ==
    IF outcome \in {"ValueError", "MemoryError"} THEN "raise" ELSE "continue"
ParseHandler(outcome) ==
    IF outcome = "ValueError" THEN "raise"
    ELSE IF outcome = "MemoryError" THEN "reload"
    ELSE "continue"

\* lines 545-554
Parse ==
    /\ pc = "parse"
    /\ IF ~NeedsJson(cfg)
       THEN /\ pc' = "extract"
            /\ UNCHANGED <<json_out, log, last>>
       ELSE /\ log' = Append(log, Ev("json", resp.json))
            /\ json_out' = IF resp.json \in DocIds THEN resp.json ELSE ""
            /\ IF ParseHandler(resp.json) = "raise"
               THEN FetchRaises(resp.json, "json")
               ELSE IF ParseHandler(resp.json) = "reload"
               THEN pc' = "reloaded" /\ last' = Reloaded("fetch")
               ELSE pc' = "extract" /\ UNCHANGED last
    /\ UNCHANGED <<connected, neo, resp, values, image_url, slot, attempts, dl>>
    /\ UNCHANGED scenevars
    /\ UNCHANGED cb_values
    /\ UNCHANGED fixedvars

\* _json_traverse on json_out, which is None when nothing was parsed
TraverseOut(id, path) ==
    IF id = "" THEN [err |-> "TypeError", key |-> KS(""), node |-> StrNode(<<>>)]
    ELSE json_traverse(DocOf(id), path)

\* lines 560-562: the values of the paths in order, or the first error
RECURSIVE ExtractPaths(_, _, _, _)
ExtractPaths(id, paths, k, acc) ==
    IF k > Len(paths) THEN [err |-> "none", list |-> acc]
    ELSE LET r == TraverseOut(id, paths[k])
         IN  IF r.err # "none" THEN [err |-> r.err, list |-> acc]
             ELSE ExtractPaths(id, paths, k + 1, Append(acc, ValueOf(r.node)))

\* what group(1) of a match can be: a stretch of the text
Substrings(str) ==
    {SubSeq(str, i, j) : i \in 1..(Len(str) + 1), j \in 0..Len(str)}

\* lines 559-567
Extract ==
    /\ pc = "extract"
    /\ \/ /\ cfg.json_path # <<>>
          /\ LET r == ExtractPaths(json_out, cfg.json_path, 1, <<>>)
             IN  /\ values' = ListValues(r.list)
                 /\ IF r.err # "none"
                    THEN FetchRaises(r.err, "json_path")
                    ELSE pc' = "image" /\ UNCHANGED last
       \/ /\ cfg.json_path = <<>>
          /\ cfg.regexp_path
          /\ \E m \in Substrings(resp.text) : values' = ListValues(<<StrV(m)>>)
          /\ pc' = "image"
          /\ UNCHANGED last
       \/ /\ cfg.json_path = <<>>
          /\ cfg.regexp_path
          /\ FetchRaises("AttributeError", "regexp_path")
          /\ UNCHANGED values
       \/ /\ cfg.json_path = <<>>
          /\ ~cfg.regexp_path
          /\ values' = TextValues(resp.text)
          /\ pc' = "image"
          /\ UNCHANGED last
    /\ UNCHANGED <<connected, neo, resp, json_out, image_url, slot, attempts,
                   dl, log>>
    /\ UNCHANGED scenevars
    /\ UNCHANGED cb_values
    /\ UNCHANGED fixedvars

\* fetch takes over what a set_background call returned
ApplyBackground(r) ==
    /\ bg_group' = r.group
    /\ bg_file' = r.file
    /\ nopen' = r.nopen
    /\ maxopen' = Max(maxopen, r.peak)

bgvars == <<bg_group, bg_file, nopen, maxopen>>

\* lines 569-579: the image path, then r and json_out are dropped
Image ==
    /\ pc = "image"
    /\ resp' = NoResp
    /\ json_out' = ""
    /\ \/ /\ cfg.image_json_path = <<>>
          /\ pc' = "callback"
          /\ UNCHANGED <<image_url, log, last>>
          /\ UNCHANGED bgvars
       \/ /\ cfg.image_json_path # <<>>
          /\ LET t == TraverseOut(json_out, cfg.image_json_path)
             IN  \/ /\ t.err = "none"
                    /\ image_url' = ValueOf(t.node)
                    /\ log' = Append(log, Ev("image_json_path", "found"))
                    /\ pc' = IF Truthy(ValueOf(t.node)) THEN "wget"
                             ELSE "callback"
                    /\ UNCHANGED last
                    /\ UNCHANGED bgvars
                 \/ /\ t.err \notin {"none", "KeyError"}
                    /\ log' = Append(log, Ev("image_json_path", t.err))
                    /\ FetchRaises(t.err, "image_json_path")
                    /\ UNCHANGED image_url
                    /\ UNCHANGED bgvars
                 \/ /\ t.err = "KeyError"
                    /\ t.key.kind = "int"
                    /\ log' = Append(log, Ev("image_json_path", "KeyError:int"))
                    /\ FetchRaises("TypeError", "except KeyError")
                    /\ UNCHANGED image_url
                    /\ UNCHANGED bgvars
                 \/ /\ t.err = "KeyError"
                    /\ t.key.kind = "str"
                    /\ log' = log \o <<Ev("image_json_path", "KeyError:str"),
                                       Ev("set_background", cfg.default_bg)>>
                    /\ \E out \in OpenOutcomes :
                          LET r == set_background(bg_group, bg_file, nopen,
                                                  cfg.default_bg, out)
                          IN  /\ cfg.default_bg = "" => out = "ok"
                              /\ ApplyBackground(r)
                              /\ IF r.err # "none"
                                 THEN FetchRaises(r.err, "except KeyError")
                                 ELSE pc' = "callback" /\ UNCHANGED last
                    /\ UNCHANGED image_url
    /\ UNCHANGED <<connected, neo, values, slot, attempts, dl>>
    /\ UNCHANGED <<splash, text, caption>>
    /\ UNCHANGED cb_values
    /\ UNCHANGED fixedvars

\* except ValueError, line 590
CaughtNothing(err) == FALSE
Caught(err) == err = "ValueError"

\* an error inside the try block of lines 582-595: the handler's fallback
\* when the except clause catches it, else it leaves fetch
ImageError(err, at, events) ==
    IF Caught(err)
    THEN /\ pc' = "fallback"
         /\ log' = log \o events \o <<Ev("except", err)>>
         /\ UNCHANGED last
    ELSE /\ FetchRaises(err, at)
         /\ log' = log \o events

CacheFile == "/cache.bmp"

Min(a, b) == IF a <= b THEN a ELSE b

\* lines 583-589 and wget's lines 478-489: the converter URL, the streamed
\* GET, the content-length header and the cache file opened for writing
Wget ==
    /\ pc = "wget"
    /\ image_url' = NoneV
    /\ \/ /\ image_url.t # "str"
          /\ ImageError("TypeError", "image_url", <<>>)
          /\ UNCHANGED <<neo, dl>>
       \/ /\ image_url.t = "str"
          /\ neo' = neo_status(cfg, neo, "yellow")
          /\ \/ /\ ImageError("RuntimeError", "get_stream",
                              <<Ev("neo_status", "yellow"), Ev("get_stream", "url")>>)
                /\ UNCHANGED dl
             \/ /\ ImageError("KeyError", "content-length",
                              <<Ev("neo_status", "yellow"), Ev("get_stream", "url")>>)
                /\ UNCHANGED dl
             \/ /\ ImageError("ValueError", "content-length",
                              <<Ev("neo_status", "yellow"), Ev("get_stream", "url")>>)
                /\ UNCHANGED dl
             \/ /\ ImageError("OSError", "open_wb",
                              <<Ev("neo_status", "yellow"), Ev("get_stream", "url"),
                                Ev("open_wb", CacheFile)>>)
                /\ UNCHANGED dl
             \/ /\ \E n \in ContentLengths :
                      dl' = [content_length |-> n, remaining |-> n,
                             chunk |-> Min(n, ChunkSize)]
                /\ log' = log \o <<Ev("neo_status", "yellow"),
                                   Ev("get_stream", "url"),
                                   Ev("open_wb", CacheFile)>>
                /\ pc' = "stream"
                /\ UNCHANGED last
    /\ UNCHANGED <<connected, resp, json_out, values, slot, attempts>>
    /\ UNCHANGED scenevars
    /\ UNCHANGED cb_values
    /\ UNCHANGED fixedvars

\* lines 490-500: one pass of the for loop; iter_content was called once,
\* with min(content_length, 12000), and hands out chunks of at most that
Stream ==
    /\ pc = "stream"
    /\ \/ /\ dl.remaining = 0 \/ dl.chunk = 0
          /\ pc' = "wget_done"
          /\ UNCHANGED <<neo, dl, log>>
       \/ /\ dl.remaining > 0
          /\ pc' = "wget_done"
          /\ log' = Append(log, Ev("stream", "ended early"))
          /\ UNCHANGED <<neo, dl>>
       \/ /\ \E k \in {HalfChunk, ChunkSize} :
                /\ k <= dl.chunk
                /\ k <= dl.remaining
                /\ dl' = [dl EXCEPT !.remaining = dl.remaining - k]
                /\ IF dl.remaining - k = 0
                   THEN /\ pc' = "wget_done"
                        /\ neo' = neo_status(cfg, neo, "cyan")
                        /\ log' = log \o <<Ev("neo_status", "cyan"),
                                           Ev("write", CacheFile)>>
                   ELSE /\ pc' = "stream"
                        /\ neo' = neo_status(cfg, neo, "yellow")
                        /\ log' = log \o <<Ev("neo_status", "cyan"),
                                           Ev("write", CacheFile),
                                           Ev("neo_status", "yellow")>>
    /\ UNCHANGED <<connected, resp, json_out, values, image_url, slot,
                   attempts, last>>
    /\ UNCHANGED scenevars
    /\ UNCHANGED cb_values
    /\ UNCHANGED fixedvars

\* lines 502-505 and 589: the file is closed, the pixel goes off and the
\* cache file becomes the background
WgetDone ==
    /\ pc = "wget_done"
    /\ neo' = neo_status(cfg, neo, "off")
    /\ \E out \in OpenOutcomes :
         LET r == set_background(bg_group, bg_file, nopen, CacheFile, out)
         IN  /\ ApplyBackground(r)
             /\ IF r.err # "none"
                THEN ImageError(r.err, "set_background",
                                <<Ev("close_wb", CacheFile), Ev("neo_status", "off"),
                                  Ev("set_background", CacheFile)>>)
                ELSE /\ pc' = "callback"
                     /\ log' = log \o <<Ev("close_wb", CacheFile),
                                        Ev("neo_status", "off"),
                                        Ev("set_background", CacheFile)>>
                     /\ UNCHANGED last
    /\ UNCHANGED <<connected, resp, json_out, values, image_url, slot,
                   attempts, dl>>
    /\ UNCHANGED <<splash, text, caption>>
    /\ UNCHANGED cb_values
    /\ UNCHANGED fixedvars

\* lines 590-592: the handler restores the default background
Fallback ==
    /\ pc = "fallback"
    /\ log' = Append(log, Ev("set_background", cfg.default_bg))
    /\ \E out \in OpenOutcomes :
         LET r == set_background(bg_group, bg_file, nopen, cfg.default_bg, out)
         IN  /\ cfg.default_bg = "" => out = "ok"
             /\ ApplyBackground(r)
             /\ IF r.err # "none"
                THEN FetchRaises(r.err, "except ValueError")
                ELSE pc' = "callback" /\ UNCHANGED last
    /\ UNCHANGED <<connected, neo, resp, json_out, values, image_url, slot,
                   attempts, dl>>
    /\ UNCHANGED <<splash, text, caption>>
    /\ UNCHANGED cb_values
    /\ UNCHANGED fixedvars

\* if self._success_callback: self._success_callback(values): what the
\* callback has been given, after this line
SuccessCallbackSkipped(c, given, v) == given
SuccessCallback(c, given, v) == IF c.callback THEN Append(given, v) ELSE given

\* lines 597-599
Callback ==
    /\ pc = "callback"
    /\ cb_values' = SuccessCallback(cfg, cb_values, values)
    /\ log' = IF cfg.callback THEN Append(log, Ev("callback", "values"))
              ELSE log
    /\ pc' = "text"
    /\ slot' = 0
    /\ UNCHANGED <<connected, neo, resp, json_out, values, image_url,
                   attempts, dl, last>>
    /\ UNCHANGED scenevars
    /\ UNCHANGED fixedvars

\* lines 602-618: one pass of the text loop, or the return after it
TextLoop ==
    /\ pc = "text"
    /\ \/ /\ slot >= cfg.ntext
          /\ pc' = "idle"
          /\ last' = Returned("fetch")
          /\ UNCHANGED <<splash, text, slot, log>>
       \/ /\ slot < cfg.ntext
          /\ slot >= ValuesLen(values)
          /\ FetchRaises("IndexError", "values[i]")
          /\ UNCHANGED <<splash, text, slot, log>>
       \/ /\ slot < cfg.ntext
          /\ slot < ValuesLen(values)
          /\ LET string == DisplayString(ValuesAt(values, slot), cfg)
                 r      == set_text(splash, text, cfg, string, slot)
             IN  /\ splash' = r.splash
                 /\ text' = r.text
                 /\ log' = Append(log, Ev("set_text", TextEl(slot)))
                 /\ IF r.err # "none"
                    THEN FetchRaises(r.err, "set_text") /\ UNCHANGED slot
                    ELSE /\ slot' = slot + 1
                         /\ UNCHANGED <<pc, last>>
    /\ UNCHANGED <<connected, neo, resp, json_out, values, image_url,
                   attempts, dl>>
    /\ UNCHANGED <<bg_group, bg_file, nopen, maxopen, caption>>
    /\ UNCHANGED cb_values
    /\ UNCHANGED fixedvars

(***************************************************************************)
(* The device: construction, then fetch calls                              *)
(***************************************************************************)
MaxFetchText == 2

PathText == <<KS("text")>>

PathList0 == <<KS("list"), KI(0)>>

PathImageUrl == <<KS("image"), KS("url")>>

PathImage0 == <<KS("image"), KI(0)>>

JsonPathChoices == {<<>>, <<PathText>>, <<PathText, PathList0>>}

ImagePathChoices == {<<>>, PathImageUrl, PathImage0, PathList0, PathText}

\* the configurations without an image path: every way of extracting the
\* values, with text slots that wrap or truncate
TextFetchConfigs ==
    { [BaseConfig EXCEPT !.uselocal = ul, !.json_path = jp,
                         !.regexp_path = rx, !.callback = cb, !.ntext = n,
                         !.text_wrap = tm[1], !.text_maxlen = tm[2]] :
         ul \in BOOLEAN, jp \in JsonPathChoices, rx \in BOOLEAN,
         cb \in BOOLEAN, n \in 0..MaxFetchText,
         tm \in {<<0, 0>>, <<3, 0>>, <<0, 2>>} }

\* the configurations with an image path
ImageFetchConfigs ==
    { [BaseConfig EXCEPT !.uselocal = ul, !.json_path = jp,
                         !.image_json_path = ip, !.callback = cb,
                         !.neopix = np, !.ntext = n, !.default_bg = bg] :
         ul \in BOOLEAN, jp \in {<<>>, <<PathText>>},
         ip \in ImagePathChoices \ {<<>>}, cb \in BOOLEAN, np \in BOOLEAN,
         n \in 0..1, bg \in {"", "default.bmp"} }

FetchConfigs == TextFetchConfigs \cup ImageFetchConfigs

Init ==
    /\ cfg \in FetchConfigs
    /\ PowerOn

Next ==
    \/ ProbeESP
    \/ Construct
    \/ FetchBegin
    \/ ConnectEsp
    \/ Get
    \/ Parse
    \/ Extract
    \/ Image
    \/ Wget
    \/ Stream
    \/ WgetDone
    \/ Fallback
    \/ Callback
    \/ TextLoop

Spec == Init /\ [][Next]_vars

\* fetch over the network or from the local file with no image path: the
\* device for _connect_esp, whose busy loop keeps running once entered
ConnectConfigs ==
    { c \in TextFetchConfigs : ~c.regexp_path /\ c.text_wrap = 0 }

ConnectInit ==
    /\ cfg \in ConnectConfigs
    /\ PowerOn

ConnectNext ==
    \/ ProbeESP
    \/ Construct
    \/ FetchBegin
    \/ ConnectEsp
    \/ Get
    \/ Parse
    \/ Extract
    \/ Image
    \/ Callback
    \/ TextLoop

SpecConnect == ConnectInit /\ [][ConnectNext]_vars /\ WF_vars(ConnectEsp)

(***************************************************************************)
(* Claims about the scene                                                  *)
(***************************************************************************)
Elements(s) == {s[k] : k \in 1..Len(s)}

IndexOf(s, e) == CHOOSE k \in 1..Len(s) : s[k] = e

\* every two elements of s stand in s2, in the same order
OrderKept(s, s2) ==
    \A x \in Elements(s), y \in Elements(s) :
        IndexOf(s, x) < IndexOf(s, y) =>
            /\ x \in Elements(s2)
            /\ y \in Elements(s2)
            /\ IndexOf(s2, x) < IndexOf(s2, y)

\* a step that is a set_text call on slot index, which held a drawable
IsUpdateOf(index) ==
    /\ pc = "idle"
    /\ index < cfg.ntext
    /\ text[index + 1].set
    /\ log' = <<Ev("set_text", TextEl(index))>>
    /\ last'.op = "set_text"

\* C1: set_text on a slot that already holds a drawable leaves the
\* stacking order of the scene unchanged: what was above the slot stays
\* above it, in the same order.
C1_SetTextKeepsOrder ==
    [][\A index \in 0..(MaxText - 1) :
          IsUpdateOf(index) => OrderKept(splash, splash')]_vars

\* C3: at most one background sprite is attached and at most one
\* background file handle is open, also at the moment set_background opens
\* a file (the old handle is closed first).
C3_OneBackground ==
    /\ Len(bg_group) <= 1
    /\ nopen <= 1
    /\ maxopen <= 1

\* a second background replaced the default one, which the constructor
\* had opened
C3_SecondBackgroundSet ==
    /\ pc = "idle"
    /\ cfg.default_bg = "default.bmp"
    /\ last = Returned("set_background")
    /\ bg_file = [name |-> "two.bmp", open |-> TRUE]
    /\ bg_group = <<"two.bmp">>
    /\ nopen = 1

(***************************************************************************)
(* Claims about construction and fetch                                     *)
(***************************************************************************)
\* the places in the log of the calls named name
Calls(name) == {k \in 1..Len(log) : log[k][1] = name}

HasCall(name) == Calls(name) # {}

FetchEnded == pc = "idle" /\ last.op = "fetch"

\* C2: with the local-override file present, fetch() makes no network
\* call: no connect, no buffered GET, no streamed GET.
C2_LocalFetchNoNetwork ==
    cfg.uselocal =>
        ~HasCall("connect") /\ ~HasCall("get") /\ ~HasCall("get_stream")

ParseFailed == \E k \in Calls("json") : log[k][2] = "ValueError"

\* C4: when the body fails to parse as JSON, fetch() raises the parse
\* error, and nothing comes after the failed parse: no set_text, no
\* set_background, no image download, no callback.
C4_ParseErrorRaised ==
    ParseFailed =>
        /\ pc = "idle"
        /\ last = Raised("fetch", "ValueError", "json")
        /\ log[Len(log)] = Ev("json", "ValueError")
        /\ ~HasCall("set_text")
        /\ ~HasCall("set_background")
        /\ ~HasCall("get_stream")
        /\ ~HasCall("callback")

\* a fetch with a JSON path, an image path, a callback and a text slot
\* ended on the parse error
C4_ParseErrorSeen ==
    /\ ParseFailed
    /\ FetchEnded
    /\ cfg.json_path # <<>>
    /\ cfg.image_json_path # <<>>
    /\ cfg.callback
    /\ cfg.ntext > 0

\* the image path met a missing mapping key (string or integer) or a
\* missing sequence index
MissingSteps == {"KeyError:str", "KeyError:int", "IndexError"}

\* a failure of a later step, which the claim is not about
LaterFailure ==
    \/ last.at \in {"values[i]", "set_text"}
    \/ last.at = "except KeyError" /\ last.err \in {"OSError", "ValueError"}

\* C5: a missing step of the image path is not fatal: fetch() sets the
\* default background next, and then (unless a later step fails) invokes
\* the callback, renders every text slot and returns.
C5_MissingImageStepNotFatal ==
    \A k \in Calls("image_json_path") :
        log[k][2] \in MissingSteps =>
            /\ k < Len(log)
            /\ log[k + 1] = Ev("set_background", cfg.default_bg)
            /\ FetchEnded /\ ~LaterFailure =>
                   /\ last = Returned("fetch")
                   /\ cfg.callback => \E j \in Calls("callback") : j > k
                   /\ Cardinality(Calls("set_text")) = cfg.ntext

\* the steps of the image download and background swap
ImageSteps == {"get_stream", "content-length", "open_wb", "set_background"}

\* C6 as claimed: no failure of the image download, cache write or
\* background swap leaves fetch().
C6_NoImageFailurePropagates ==
    (FetchEnded /\ last.kind = "raise") => last.at \notin ImageSteps

\* C6 as the code has it: of the failures of the image download and
\* background swap exactly the ValueErrors are caught; the handler then sets
\* the default background and, when that call completes, fetch() goes on
\* to the callback and the text slots.  Every other failure leaves fetch().
C6_OnlyValueErrorCaught ==
    /\ (FetchEnded /\ last.kind = "raise" /\ last.at \in ImageSteps) =>
           last.err \in {"RuntimeError", "KeyError", "OSError"}
    /\ \A k \in Calls("except") :
           /\ log[k][2] = "ValueError"
           /\ IF k = Len(log) THEN pc = "fallback"
              ELSE log[k + 1] = Ev("set_background", cfg.default_bg)
           /\ (FetchEnded /\ last.at # "except ValueError") =>
                  /\ cfg.callback => \E j \in Calls("callback") : j > k
                  /\ last = Returned("fetch") \/ last.at \in {"values[i]", "set_text"}
    /\ pc = "fallback" => log[Len(log)] = Ev("except", "ValueError")

\* a ValueError of the image handling was caught and fetch() returned after
\* the callback and a text slot
C6_ValueErrorCaughtSeen ==
    /\ FetchEnded
    /\ last = Returned("fetch")
    /\ HasCall("except")
    /\ HasCall("callback")
    /\ HasCall("set_text")
    /\ cfg.default_bg # ""

\* C8: with neither JSON paths nor regex patterns and one text slot, slot
\* 0 shows the whole body (formatted, wrapped, truncated).
C8_WholeBodyRendered ==
    (/\ FetchEnded
     /\ last = Returned("fetch")
     /\ cfg.json_path = <<>>
     /\ ~cfg.regexp_path
     /\ cfg.ntext = 1) =>
        text[1] = TextArea(Truncate(DisplayString(StrV(values.str), cfg),
                                    cfg.text_maxlen))

ParseRanOut == \E k \in Calls("json") : log[k][2] = "MemoryError"

\* C9: an out-of-memory error while parsing the body reloads the device
\* and is not raised to the caller; nothing else in fetch() reloads.
C9_ReloadOnParseOutOfMemory ==
    /\ ParseRanOut => pc = "reloaded" /\ last = Reloaded("fetch")
    /\ pc = "reloaded" =>
           /\ last = Reloaded("fetch")
           /\ log[Len(log)] = Ev("json", "MemoryError")
    /\ last.kind = "reload" => pc = "reloaded"
    /\ (last.kind = "raise" /\ last.err = "MemoryError") => last.at # "json"

C9_ReloadSeen ==
    /\ pc = "reloaded"
    /\ ParseRanOut
    /\ cfg.image_json_path # <<>>

\* the log still holds the constructor's calls
InitLog ==
    \/ pc \in {"probe", "construct", "dead"}
    \/ pc = "idle" /\ last = Returned("init")

NotFound == Raised("init", "RuntimeError", "probe")

\* C10: the adapter is probed at most 3 times; the first successful probe
\* ends the loop; each failed probe is followed by a wait of 1 and a
\* reset; the constructor raises "not found" exactly when 3 probes failed;
\* with the local-override file there is no probe.
C10_ProbeRetries ==
    InitLog =>
        /\ Cardinality(Calls("probe_ok") \cup Calls("probe_fail")) <= 3
        /\ cfg.uselocal =>
               Calls("probe_ok") \cup Calls("probe_fail")
                   \cup Calls("reset") \cup Calls("sleep") = {}
        /\ \A k \in Calls("probe_ok") : \A j \in (k + 1)..Len(log) :
               log[j][1] \notin {"probe_ok", "probe_fail", "sleep", "reset"}
        /\ \A k \in Calls("probe_fail") :
               /\ k + 2 <= Len(log)
               /\ log[k + 1] = Ev("sleep", "1")
               /\ log[k + 2] = Ev("reset", "")
        /\ Cardinality(Calls("reset")) = Cardinality(Calls("probe_fail"))
        /\ pc # "probe" =>
               (last = NotFound <=> Cardinality(Calls("probe_fail")) = 3)
        /\ last = NotFound => pc = "dead"

\* two probes failed and the third succeeded
C10_ThirdProbeSucceeds ==
    /\ pc = "idle"
    /\ last = Returned("init")
    /\ Cardinality(Calls("probe_fail")) = 2
    /\ Cardinality(Calls("probe_ok")) = 1

\* a fetch over the network that downloaded no image has returned
NetworkFetchReturned ==
    /\ FetchEnded
    /\ last = Returned("fetch")
    /\ ~cfg.uselocal
    /\ ~HasCall("get_stream")

\* C11: on the network path the connection is made first, then the pixel
\* shows yellow, then the GET is issued, and after the response the pixel
\* shows cyan and then off; a fetch() without an image download leaves the
\* pixel off.
C11_ReceivedCyanThenOff ==
    NetworkFetchReturned =>
        /\ \A k \in Calls("get") :
               /\ \A j \in Calls("connect") : j < k
               /\ k > 1 /\ log[k - 1] = Ev("neo_status", "yellow")
               /\ k + 2 <= Len(log)
               /\ log[k + 1] = Ev("neo_status", "cyan")
               /\ log[k + 2] = Ev("neo_status", "off")
        /\ cfg.neopix => neo = "off"

\* the calls of the image handling: the image path, the download, the
\* cache file and every background change
ImageCalls ==
    Calls("image_json_path") \cup Calls("get_stream") \cup Calls("open_wb")
        \cup Calls("write") \cup Calls("close_wb") \cup Calls("except")
        \cup Calls("set_background")

\* C12: a fetch() that returns normally with a success callback configured
\* has invoked it exactly once, with the extracted values, after all image
\* handling and before the first set_text; without a callback configured
\* nothing is invoked.
C12_CallbackOnceBetweenImageAndText ==
    /\ (FetchEnded /\ last = Returned("fetch") /\ cfg.callback) =>
           /\ cb_values = <<values>>
           /\ Cardinality(Calls("callback")) = 1
           /\ \A k \in Calls("callback") :
                  /\ \A j \in ImageCalls : j < k
                  /\ \A j \in Calls("set_text") : k < j
    /\ ~cfg.callback => cb_values = <<>> /\ ~HasCall("callback")

\* a fetch with a callback returned after an image download, a background
\* change and a text slot
C12_CallbackAfterDownloadSeen ==
    /\ FetchEnded
    /\ last = Returned("fetch")
    /\ cfg.callback
    /\ cb_values = <<values>>
    /\ HasCall("write")
    /\ \E k \in Calls("set_background") : log[k][2] = CacheFile
    /\ HasCall("set_text")

RedThenConnect == <<Ev("neo_status", "red"), Ev("connect", "settings")>>

\* C13: _connect_esp returns only when the adapter reports connected; a
\* pass of the loop that finds it not connected signals red and makes
\* exactly one connect attempt with the settings; when it is connected
\* (on entry or after an attempt) the loop ends with no further attempt;
\* and once an attempt has connected, _connect_esp returns.
C13_ConnectLoop ==
    /\ [](pc = "get" => connected)
    /\ [][(pc = "connect" /\ ~connected) =>
              /\ log' = log \o RedThenConnect
              /\ attempts' = attempts + 1]_vars
    /\ [][(pc = "connect" /\ connected) =>
              /\ pc' = "get"
              /\ log' = log
              /\ attempts' = attempts]_vars
    /\ [](pc \in {"connect", "get"} =>
              /\ Cardinality(Calls("connect")) = attempts
              /\ \A k \in Calls("connect") : log[k] = Ev("connect", "settings"))
    /\ (pc = "connect" /\ connected) ~> (pc = "get")

\* _connect_esp returned after one attempt that failed quietly and one that
\* connected
C13_SecondAttemptConnects ==
    /\ pc = "get"
    /\ connected
    /\ attempts = 2
    /\ Cardinality(Calls("connect")) = 2

\* C14: while wget streams to the cache file, the chunk it requests next
\* has size min(12000, bytes still remaining), so no requested chunk is
\* larger than what is not yet written; the loop stops once nothing
\* remains.
C14_ChunkClippedToRemaining ==
    /\ pc = "stream" => dl.chunk = Min(ChunkSize, dl.remaining)
    /\ (pc = "wget_done" /\ log[Len(log)][1] = "write") => dl.remaining = 0

\* the open background file is the cache file, and its sprite is attached
CacheFileShown ==
    /\ bg_file = [name |-> CacheFile, open |-> TRUE]
    /\ bg_group = <<CacheFile>>

\* C15: wget never has the cache file open for writing while the
\* background file handle is open on that same file.
C15_CacheNotWrittenWhileShown ==
    pc = "stream" => ~CacheFileShown

(***************************************************************************)
(* wrap_nicely on its own                                                  *)
(***************************************************************************)
WrapAlphabet == {"a", "b", " "}

NotCalled == <<<<"not called">>>>

DevIdle ==
    /\ cfg = [none |-> TRUE]
    /\ pc = "off"
    /\ tries = 0
    /\ connected = FALSE
    /\ neo = "off"
    /\ splash = <<>>
    /\ bg_group = <<>>
    /\ bg_file = [name |-> "", open |-> FALSE]
    /\ nopen = 0
    /\ maxopen = 0
    /\ text = <<>>
    /\ caption = FALSE
    /\ resp = <<>>
    /\ json_out = ""
    /\ values = <<>>
    /\ image_url = <<>>
    /\ slot = 0
    /\ attempts = 0
    /\ dl = <<>>
    /\ cb_values = <<>>
    /\ log = <<>>
    /\ last = NoneYet

WrapInit ==
    /\ DevIdle
    /\ w_string \in StringsUpTo(WrapAlphabet, MaxStrLen)
    /\ w_max \in 1..MaxWidth
    /\ w_lines = NotCalled

CallWrap ==
    /\ w_lines = NotCalled
    /\ w_lines' = wrap_nicely(w_string, w_max)
    /\ UNCHANGED <<w_string, w_max>>
    /\ UNCHANGED devvars

WrapNext == CallWrap

SpecWrap == WrapInit /\ [][WrapNext]_vars

\* the claim's inputs: non-empty words joined by single spaces, and a width
\* no smaller than the longest word
WordsOf(s) == Split(s)

IsWordJoin(s) == \A k \in 1..Len(WordsOf(s)) : WordsOf(s)[k] # <<>>

FitsWords(s, m) == \A k \in 1..Len(WordsOf(s)) : Len(WordsOf(s)[k]) <= m

WrapCase ==
    /\ w_lines # NotCalled
    /\ IsWordJoin(w_string)
    /\ FitsWords(w_string, w_max)

\* C7: for non-empty words W and a width at least the longest word, the
\* lines of wrap_nicely(W joined by spaces) joined by single spaces give
\* back the input, no line is empty and no line starts with a space.
C7_WrapRoundTrip ==
    WrapCase =>
        /\ Join(<<" ">>, w_lines) = w_string
        /\ \A k \in 1..Len(w_lines) :
               w_lines[k] # <<>> /\ w_lines[k][1] # " "

\* what the code does instead: the first line is empty or starts with a
\* space, so the joined lines are the input behind one extra space
C7_WrapLeadingSpace ==
    WrapCase =>
        /\ Join(<<" ">>, w_lines) = <<" ">> \o w_string
        /\ w_lines[1] = <<>> \/ w_lines[1][1] = " "
        /\ \A k \in 2..Len(w_lines) :
               w_lines[k] # <<>> /\ w_lines[k][1] # " "

C7_WrapSeen ==
    /\ WrapCase
    /\ Len(w_lines) >= 3
====
